---------------------------- MODULE Spec2Model ----------------------------
(***************************************************************************)
(* State-machine model of the HTTP serving layer in                        *)
(* src/server/src/server.rs: the response primitives, the search and stats *)
(* handlers, the router, and the accept loop of `start`, running next to   *)
(* an external thread that mutates the shared Model behind the same Mutex. *)
(*                                                                         *)
(* The Model type (seroost_lib::model) and the mutating thread are not     *)
(* part of server.rs; they are modelled from the description of the Index  *)
(* in the specification document.                                          *)
(***************************************************************************)
EXTENDS Integers, Sequences, FiniteSets

\* ------------------------------------------------------------------ bounds

\* Number of documents the external mutator adds before it goes quiet.
MaxAdds == 2

\* ------------------------------------------------------ program constants

\* result.iter().take(20)
TakeLimit == 20

\* ------------------------------------------------------------- vocabulary

NoRequest == [method |-> "-", url |-> "-", body |-> <<>>]
NoResponse == [status |-> 0, contentType |-> "-", body |-> <<>>]
NoStats == [docs_count |-> 0, terms_count |-> 0]

\* A piece of response text.  Plain strings are one token; JSON text is a
\* token sequence in the order serde_json writes it.
Tok(t, v) == [t |-> t, v |-> v]

Methods == {"GET", "POST", "PUT"}

Urls == {"/api/search", "/api/stats", "/index.js", "/", "/index.html",
         "/api/search/", "/api/stats?x=1", "/nope"}

\* Request bodies as byte sequences: empty, ASCII "a", "b" followed by
\* U+00E9, and four ill-formed ones (a byte that is never legal, a truncated
\* two-byte sequence, an overlong encoding, an encoded surrogate).
ValidBodies == {<<>>, <<97>>, <<98, 195, 169>>}
InvalidBodies == {<<255>>, <<195>>, <<192, 128>>, <<237, 160, 128>>}
Bodies == ValidBodies \cup InvalidBodies

\* The requests the listener can deliver.  The body is enumerated only where
\* a handler can look at it.
Requests ==
    {[method |-> "POST", url |-> "/api/search", body |-> b] : b \in Bodies}
    \cup {[method |-> m, url |-> u, body |-> <<97>>] :
             m \in Methods, u \in Urls}

\* ---------------------------------------------------- the Index (Model)

\* A document path is a natural number; path 0 stands for a path that is not
\* valid UTF-8 (legal for a PathBuf on Unix).
BadPath == 0

\* Terms of the document stored at path p: one shared term and one of its own.
TermsOf(p) == {0, p + 1}

\* The Index after the whole of add_document(p).
AddDocument(idx, p) ==
    [docs |-> idx.docs \cup {p}, df |-> idx.df \cup TermsOf(p)]

IndexOf(paths) ==
    [docs |-> paths, df |-> UNION {TermsOf(p) : p \in paths}]

InitIndexes == {IndexOf({}), IndexOf(1..TakeLimit)}

\* model.docs.len() and model.df.len()
document_count(idx) == Cardinality(idx.docs)
term_count(idx) == Cardinality(idx.df)

QueryKey(q) == IF q = <<>> THEN 0 ELSE q[1] + Len(q)

\* Rank of document p for query q; it depends on the document, the query and
\* the document-frequency table.
Score(idx, q, p) ==
    (p * ((QueryKey(q) % 3) + 1) + Cardinality(idx.df) + QueryKey(q)) % 5

Better(idx, q, a, b) ==
    \/ Score(idx, q, a) > Score(idx, q, b)
    \/ Score(idx, q, a) = Score(idx, q, b) /\ a >= b

RECURSIVE RankFrom(_, _, _)
RankFrom(idx, q, S) ==
    IF S = {} THEN <<>>
    ELSE LET best == CHOOSE p \in S : \A r \in S : Better(idx, q, p, r)
         IN  <<[location |-> best, score |-> Score(idx, q, best)]>>
                 \o RankFrom(idx, q, S \ {best})

\* model.search_query(&body): every document, highest score first; equal
\* scores in descending path order.
search_query(idx, q) == RankFrom(idx, q, idx.docs)


\* ------------------------------------------------------------ UTF-8 decoding

\* Length of the sequence a lead byte announces; 0 for a byte that cannot
\* start a sequence (continuation bytes, C0, C1, F5..FF).
Utf8Width(b) ==
    IF b < 128 THEN 1
    ELSE IF b >= 194 /\ b <= 223 THEN 2
    ELSE IF b >= 224 /\ b <= 239 THEN 3
    ELSE IF b >= 240 /\ b <= 244 THEN 4
    ELSE 0

IsContinuation(b) == b >= 128 /\ b <= 191

\* The second byte is restricted for E0 (no overlongs), ED (no surrogates),
\* F0 (no overlongs) and F4 (nothing above U+10FFFF).
SecondByteOk(b0, b1) ==
    IF b0 = 224 THEN b1 >= 160 /\ b1 <= 191
    ELSE IF b0 = 237 THEN b1 >= 128 /\ b1 <= 159
    ELSE IF b0 = 240 THEN b1 >= 144 /\ b1 <= 191
    ELSE IF b0 = 244 THEN b1 >= 128 /\ b1 <= 143
    ELSE IsContinuation(b1)

WellFormedAt(buf, w) ==
    /\ w > 0
    /\ Len(buf) >= w
    /\ w >= 2 => SecondByteOk(buf[1], buf[2])
    /\ \A i \in 3..w : IsContinuation(buf[i])

CodePoint(buf, w) ==
    IF w = 1 THEN buf[1]
    ELSE IF w = 2 THEN (buf[1] - 192) * 64 + (buf[2] - 128)
    ELSE IF w = 3 THEN (buf[1] - 224) * 4096 + (buf[2] - 128) * 64
                           + (buf[3] - 128)
    ELSE (buf[1] - 240) * 262144 + (buf[2] - 128) * 4096
             + (buf[3] - 128) * 64 + (buf[4] - 128)

\* Variant: a lossy decoder, which takes any byte sequence.
from_utf8_lossy(buf) == [ok |-> TRUE, chars |-> buf]

\* str::from_utf8(&buf) followed by .chars().collect(): the characters of the
\* body, or a failure.
RECURSIVE from_utf8(_)
from_utf8(buf) ==
    IF buf = <<>> THEN [ok |-> TRUE, chars |-> <<>>]
    ELSE LET w == Utf8Width(buf[1])
         IN  IF ~WellFormedAt(buf, w) THEN [ok |-> FALSE, chars |-> <<>>]
             ELSE LET rest == from_utf8(SubSeq(buf, w + 1, Len(buf)))
                  IN  IF rest.ok
                      THEN [ok |-> TRUE,
                            chars |-> <<CodePoint(buf, w)>> \o rest.chars]
                      ELSE rest

\* ------------------------------------------------------- JSON serialization

\* Serialize for Path: a path that is not valid UTF-8 is an error.
PathSerializable(p) == p # BadPath

\* Variant: the truncation is left out.
TakeAll(seq) == seq

\* result.iter().take(20).collect()
TakeFirst(seq) ==
    SubSeq(seq, 1, IF Len(seq) < TakeLimit THEN Len(seq) ELSE TakeLimit)

RECURSIVE EntriesText(_)
EntriesText(entries) ==
    IF entries = <<>> THEN <<>>
    ELSE <<Tok("[", 0), Tok("str", entries[1].location),
           Tok("num", entries[1].score), Tok("]", 0)>>
             \o EntriesText(Tail(entries))

\* serde_json::to_string of the truncated result list: an array of
\* [path, score] pairs, or an error.
ResultsToJson(entries) ==
    IF \E i \in 1..Len(entries) : ~PathSerializable(entries[i].location)
    THEN [ok |-> FALSE, text |-> <<>>]
    ELSE [ok |-> TRUE,
          text |-> <<Tok("[", 0)>> \o EntriesText(entries) \o <<Tok("]", 0)>>]

\* serde_json::to_string(&stats): two unsigned integers always serialize.
StatsToJson(st) ==
    [ok |-> TRUE,
     text |-> <<Tok("{", 0), Tok("docs_count", st.docs_count),
                Tok("terms_count", st.terms_count), Tok("}", 0)>>]

\* ------------------------------------------------------ response primitives

TextPlain == "text/plain; charset=UTF-8"

\* Response::from_string(s): status 200, Content-Type text/plain.
from_string(text) == [status |-> 200, contentType |-> TextPlain, body |-> text]

\* Response::from_data(bytes): status 200, no Content-Type.
from_data(bytes) == [status |-> 200, contentType |-> "none", body |-> bytes]

with_status_code(resp, code) == [resp EXCEPT !.status = code]

\* with_header for a Content-Type header replaces the one already there.
with_header(resp, ct) == [resp EXCEPT !.contentType = ct]

serve_404 == with_status_code(from_string(<<Tok("404", 0)>>), 404)

\* Variant: the body of the 500 is left out.
serve_500_empty == with_status_code(from_string(<<>>), 500)

serve_500 == with_status_code(from_string(<<Tok("500", 0)>>), 500)

serve_400(message) ==
    with_status_code(from_string(<<Tok("400: ", 0), Tok(message, 0)>>), 400)

serve_bytes(bytes, content_type) ==
    with_header(from_data(<<Tok(bytes, 0)>>), content_type)

JsonResponse(text) == with_header(from_string(text), "application/json")

\* ------------------------------------------------------------------- router

\* Variant: the arms match on the url alone.
RouteByUrlOnly(method, url) ==
    IF url = "/api/search" THEN "serve_api_search"
    ELSE IF url = "/api/stats" THEN "serve_api_stats"
    ELSE IF url = "/index.js" THEN "serve_index_js"
    ELSE IF url = "/" \/ url = "/index.html" THEN "serve_index_html"
    ELSE "serve_404"

\* Variant: the "/" alias of the HTML page is missing.
RouteWithoutRootAlias(method, url) ==
    IF method = "POST" /\ url = "/api/search" THEN "serve_api_search"
    ELSE IF method = "GET" /\ url = "/api/stats" THEN "serve_api_stats"
    ELSE IF method = "GET" /\ url = "/index.js" THEN "serve_index_js"
    ELSE IF method = "GET" /\ url = "/index.html" THEN "serve_index_html"
    ELSE "serve_404"

\* The match of serve_request: arms are tried in order, the first that fits
\* both the method and the whole url wins.
Route(method, url) ==
    IF method = "POST" /\ url = "/api/search" THEN "serve_api_search"
    ELSE IF method = "GET" /\ url = "/api/stats" THEN "serve_api_stats"
    ELSE IF method = "GET" /\ url = "/index.js" THEN "serve_index_js"
    ELSE IF method = "GET" /\ (url = "/" \/ url = "/index.html")
         THEN "serve_index_html"
    ELSE "serve_404"

\* -------------------------------------------------------------------- state

VARIABLES
    loop,         \* state of start: "INIT", "LISTENING" or "STOPPED"
    startResult,  \* how start ended: "-", "Err" (returned Err(())) or "panic"
    pc,           \* where the serving thread is
    request,      \* the request being served
    handler,      \* the handler serve_request dispatched it to
    body,         \* serve_api_search: the decoded query
    result,       \* serve_api_search: what search_query returned
    stats,        \* serve_api_stats: the Stats value being filled in
    guard,        \* the serving thread owns a MutexGuard
    response,     \* the response handed to request.respond
    ret,          \* the io::Result the handler returned: "-", "Ok", "Err"
    lock,         \* the Mutex: who holds it, and whether it is poisoned
    index,        \* the Model behind the Mutex
    mutpc,        \* where the external mutator is
    mutPath,      \* the document it is adding
    adds,         \* documents it has added so far
    committed,    \* history: the Index as of the last completed mutation
    snap,         \* history: Index states the current read may lawfully see
    acquired,     \* history: lock acquisitions made for the current request
    bodyRead,     \* history: the current request's body was read
    fault,        \* history: what went wrong inside the current handler
    prev,         \* history: how the previous request ended
    socketFailed, \* history: incoming_requests ended
    responded,    \* history: responses issued for the latest request
    bound,        \* history: outcome of Server::http: "-", "ok", "failed"
    handling      \* history: requests accepted and not yet returned from

vars == <<loop, startResult, pc, request, handler, body, result, stats, guard,
          response, ret, lock, index, mutpc, mutPath, adds, committed, snap,
          acquired, bodyRead, fault, prev, socketFailed, responded, bound,
          handling>>

serverVars == <<loop, startResult, pc, request, handler, body, result, stats,
                guard, response, ret, acquired, bodyRead, fault, prev,
                socketFailed, responded, bound, handling>>

mutatorVars == <<mutpc, mutPath, adds, committed>>

Init ==
    /\ loop = "INIT"
    /\ startResult = "-"
    /\ pc = "bind"
    /\ request = NoRequest
    /\ handler = "-"
    /\ body = <<>>
    /\ result = <<>>
    /\ stats = NoStats
    /\ guard = FALSE
    /\ response = NoResponse
    /\ ret = "-"
    /\ lock = [holder |-> "none", poisoned |-> FALSE]
    /\ index \in InitIndexes
    /\ mutpc = "idle"
    /\ mutPath = 0
    /\ adds = 0
    /\ committed = index
    /\ snap = {}
    /\ acquired = 0
    /\ bodyRead = FALSE
    /\ fault = "none"
    /\ prev = "first"
    /\ socketFailed = FALSE
    /\ responded = 0
    /\ bound = "-"
    /\ handling = 0

\* ------------------------------------------------------------------ the lock

\* Variant: the Index is reached without waiting for the holder.
AcquireWithoutWaiting(l) == TRUE

\* Mutex::lock blocks while another party holds the mutex.
CanAcquire(l) == l.holder = "none"

\* Variant: the guard is recovered from a poisoned mutex.
lock_into_inner(l) == "guard"

\* .lock().unwrap(): a poisoned mutex makes unwrap panic.
lock_unwrap(l) == IF l.poisoned THEN "panic" ELSE "guard"

\* Index states a read that starts now may lawfully see: the last committed
\* state, and the state after the mutation in progress, if there is one.
Lawful ==
    {committed} \cup
        (IF mutpc \in {"locked", "mid", "written"}
         THEN {AddDocument(committed, mutPath)} ELSE {})

\* Variant: a Request dropped unanswered stays unanswered.
drop_silently(n) == n

\* The handler owns the Request.  When the Request is dropped without
\* respond having been called, tiny_http answers it with an empty 500; after
\* respond, which consumes the Request, nothing more is sent.  The argument
\* and the value are the number of responses issued for the request.
request_drop(n) == IF n = 0 THEN 1 ELSE n

\* Response::empty(500)
empty_500 == with_status_code(from_data(<<>>), 500)

\* Variant: the guard is leaked (mem::forget) instead of dropped.
LeakGuard(l) == l

\* The MutexGuard goes out of scope: the Mutex is unlocked.
DropGuard(l) == [l EXCEPT !.holder = "none"]

\* Variant: the Model is taken out of the guard (mem::take).
take_model(idx) == IndexOf({})

\* `let model = model.lock().unwrap()` binds the guard immutably and
\* search_query takes &self: the Model is the same after the call.
borrow_shared(idx) == idx

\* A panic unwinds out of serve_request and out of the loop of start: nothing
\* on the way catches it.  The guard taken by the failed lock() is dropped,
\* and so is the Request.
Panic ==
    /\ pc' = "panicked"
    /\ loop' = "STOPPED"
    /\ startResult' = "panic"
    /\ responded' = request_drop(responded)
    /\ response' = IF responded' > responded THEN empty_500 ELSE response
    /\ UNCHANGED <<request, handler, body, result, stats, guard, ret,
                   acquired, bodyRead, fault, prev, socketFailed, bound,
                   handling>>

\* ---------------------------------------------------------------- start

\* Variant: the error of Server::http is dropped and the loop is entered.
ListenAnyway(ok) == "accept"

\* `Server::http(address).map_err(..)?`: a failed bind returns from start.
AfterBind(ok) == IF ok THEN "accept" ELSE "stopped"

\* Variant: the next request is taken while one is still being handled.
AcceptAnytime(p) == p \notin {"bind", "stopped", "panicked"}

\* The for loop asks incoming_requests for the next request only at the top
\* of an iteration, after serve_request has returned.
AtAccept(p) == p = "accept"

\* Server::http(address): the bind succeeds, or start returns Err(()).
Bind ==
    /\ pc = "bind"
    /\ \E ok \in BOOLEAN :
         /\ bound' = (IF ok THEN "ok" ELSE "failed")
         /\ IF AfterBind(ok) = "accept"
            THEN /\ loop' = "LISTENING"
                 /\ pc' = "accept"
                 /\ UNCHANGED startResult
            ELSE /\ loop' = "STOPPED"
                 /\ pc' = "stopped"
                 /\ startResult' = "Err"
    /\ UNCHANGED <<responded, handling>>
    /\ UNCHANGED <<request, handler, body, result, stats, guard, response,
                   ret, acquired, bodyRead, fault, prev, socketFailed>>
    /\ UNCHANGED <<lock, index, snap>>
    /\ UNCHANGED mutatorVars

\* server.incoming_requests() yields the next request.
Accept ==
    /\ AtAccept(pc)
    /\ \E req \in Requests : request' = req
    /\ pc' = "dispatch"
    /\ responded' = 0
    /\ handling' = handling + 1
    /\ UNCHANGED bound
    /\ UNCHANGED <<loop, startResult, handler, body, result, stats, guard,
                   response, ret, acquired, bodyRead, fault, prev,
                   socketFailed>>
    /\ UNCHANGED <<lock, index, snap>>
    /\ UNCHANGED mutatorVars

\* incoming_requests() ends: the loop is left and start returns Err(()).
SocketShutdown ==
    /\ pc = "accept"
    /\ pc' = "stopped"
    /\ loop' = "STOPPED"
    /\ startResult' = "Err"
    /\ socketFailed' = TRUE
    /\ UNCHANGED <<responded, bound, handling>>
    /\ UNCHANGED <<request, handler, body, result, stats, guard, response,
                   ret, acquired, bodyRead, fault, prev>>
    /\ UNCHANGED <<lock, index, snap>>
    /\ UNCHANGED mutatorVars

\* Variant: the loop propagates an Err with `?` instead of dropping it.
StopOnErr(r) == IF r = "Err" THEN "stop" ELSE "accept"

\* What the loop does with the io::Result of serve_request: map_err logs an
\* Err and .ok() drops the value, so the loop goes on either way.
AfterServe(r) == "accept"

Outcome == IF ret = "Err" THEN "io"
           ELSE IF fault = "serialize" THEN "serialize"
           ELSE "success"

\* serve_request has returned into the loop of start.
LoopContinue ==
    /\ pc = "returned"
    /\ IF AfterServe(ret) = "accept"
       THEN /\ pc' = "accept"
            /\ UNCHANGED <<loop, startResult>>
       ELSE /\ pc' = "stopped"
            /\ loop' = "STOPPED"
            /\ startResult' = "Err"
    /\ prev' = Outcome
    /\ request' = NoRequest
    /\ handler' = "-"
    /\ body' = <<>>
    /\ result' = <<>>
    /\ stats' = NoStats
    /\ response' = NoResponse
    /\ ret' = "-"
    /\ acquired' = 0
    /\ bodyRead' = FALSE
    /\ fault' = "none"
    /\ snap' = {}
    /\ handling' = handling - 1
    /\ UNCHANGED <<responded, bound>>
    /\ UNCHANGED <<guard, socketFailed, lock, index>>
    /\ UNCHANGED mutatorVars

\* -------------------------------------------------------- serve_request

\* The match on (method, url).  The two API handlers go on in steps of their
\* own; the static handlers and serve_404 build their response at once.
ServeRequest ==
    /\ pc = "dispatch"
    /\ handler' = Route(request.method, request.url)
    /\ IF handler' = "serve_api_search"
         THEN pc' = "search_read" /\ UNCHANGED response
       ELSE IF handler' = "serve_api_stats"
         THEN pc' = "stats_lock" /\ UNCHANGED response
       ELSE IF handler' = "serve_index_js"
         THEN /\ pc' = "respond"
              /\ response' =
                   serve_bytes("index.js", "text/javascript; charset=utf-8")
       ELSE IF handler' = "serve_index_html"
         THEN /\ pc' = "respond"
              /\ response' =
                   serve_bytes("index.html", "text/html; charset=utf-8")
       ELSE /\ pc' = "respond"
            /\ response' = serve_404
    /\ UNCHANGED <<responded, bound, handling>>
    /\ UNCHANGED <<loop, startResult, request, body, result, stats, guard,
                   ret, acquired, bodyRead, fault, prev, socketFailed>>
    /\ UNCHANGED <<lock, index, snap>>
    /\ UNCHANGED mutatorVars

\* request.respond(response), then the handler returns: the write to the
\* client succeeds or fails, and a guard still in scope is dropped.
Respond ==
    /\ pc = "respond"
    /\ \E r \in {"Ok", "Err"} : ret' = r
    /\ pc' = "returned"
    /\ responded' = responded + 1
    /\ IF guard
       THEN guard' = FALSE /\ lock' = DropGuard(lock)
       ELSE UNCHANGED <<guard, lock>>
    /\ UNCHANGED <<bound, handling>>
    /\ UNCHANGED <<loop, startResult, request, handler, body, result, stats,
                   response, acquired, bodyRead, fault, prev, socketFailed>>
    /\ UNCHANGED <<index, snap>>
    /\ UNCHANGED mutatorVars

\* ------------------------------------------------------ serve_api_search

\* read_to_end, then str::from_utf8: a transport failure is answered 500,
\* an ill-formed body 400, and neither touches the Mutex.
SearchReadBody ==
    /\ pc = "search_read"
    /\ UNCHANGED <<responded, bound, handling>>
    /\ bodyRead' = TRUE
    /\ \E readOk \in BOOLEAN :
         IF ~readOk
         THEN /\ fault' = "transport"
              /\ response' = serve_500
              /\ pc' = "respond"
              /\ UNCHANGED body
         ELSE LET decoded == from_utf8(request.body)
              IN  IF decoded.ok
                  THEN /\ body' = decoded.chars
                       /\ pc' = "search_lock"
                       /\ UNCHANGED <<fault, response>>
                  ELSE /\ fault' = "utf8"
                       /\ response' =
                            serve_400("Body must be a valid UTF-8 string")
                       /\ pc' = "respond"
                       /\ UNCHANGED body
    /\ UNCHANGED <<loop, startResult, request, handler, result, stats, guard,
                   ret, acquired, prev, socketFailed>>
    /\ UNCHANGED <<lock, index, snap>>
    /\ UNCHANGED mutatorVars

\* model.lock().unwrap()
SearchLock ==
    /\ pc = "search_lock"
    /\ CanAcquire(lock)
    /\ IF lock_unwrap(lock) = "panic"
       THEN Panic /\ UNCHANGED lock
       ELSE /\ lock' = [lock EXCEPT !.holder = "server"]
            /\ guard' = TRUE
            /\ acquired' = acquired + 1
            /\ pc' = "search_query"
            /\ UNCHANGED <<loop, startResult, request, handler, body, result,
                           stats, response, ret, bodyRead, fault, prev,
                           socketFailed, responded, bound, handling>>
    /\ UNCHANGED <<index, snap>>
    /\ UNCHANGED mutatorVars

\* model.search_query(&body), take(20), serde_json::to_string: the response
\* is built while the guard is alive.
SearchQuery ==
    /\ pc = "search_query"
    /\ index' = borrow_shared(index)
    /\ UNCHANGED <<responded, bound, handling>>
    /\ result' = search_query(index, body)
    /\ snap' = Lawful
    /\ LET json == ResultsToJson(TakeFirst(result'))
       IN  IF json.ok
           THEN response' = JsonResponse(json.text) /\ UNCHANGED fault
           ELSE response' = serve_500 /\ fault' = "serialize"
    /\ pc' = "respond"
    /\ UNCHANGED <<loop, startResult, request, handler, body, stats, guard,
                   ret, acquired, bodyRead, prev, socketFailed>>
    /\ UNCHANGED lock
    /\ UNCHANGED mutatorVars

\* ------------------------------------------------------- serve_api_stats

\* model.lock().unwrap() at the head of the inner block
StatsLock ==
    /\ pc = "stats_lock"
    /\ CanAcquire(lock)
    /\ IF lock_unwrap(lock) = "panic"
       THEN Panic /\ UNCHANGED lock
       ELSE /\ lock' = [lock EXCEPT !.holder = "server"]
            /\ guard' = TRUE
            /\ acquired' = acquired + 1
            /\ pc' = "stats_docs"
            /\ UNCHANGED <<loop, startResult, request, handler, body, result,
                           stats, response, ret, bodyRead, fault, prev,
                           socketFailed, responded, bound, handling>>
    /\ UNCHANGED <<index, snap>>
    /\ UNCHANGED mutatorVars

\* stats.docs_count = model.docs.len()
StatsReadDocs ==
    /\ pc = "stats_docs"
    /\ UNCHANGED <<responded, bound, handling>>
    /\ stats' = [stats EXCEPT !.docs_count = document_count(index)]
    /\ snap' = Lawful
    /\ pc' = "stats_terms"
    /\ UNCHANGED <<loop, startResult, request, handler, body, result, guard,
                   response, ret, acquired, bodyRead, fault, prev,
                   socketFailed>>
    /\ UNCHANGED <<lock, index>>
    /\ UNCHANGED mutatorVars

\* stats.terms_count = model.df.len(); the block ends and drops the guard;
\* the Stats value is serialized.
StatsReadTerms ==
    /\ pc = "stats_terms"
    /\ stats' = [stats EXCEPT !.terms_count = term_count(index)]
    /\ guard' = FALSE
    /\ lock' = DropGuard(lock)
    /\ UNCHANGED <<responded, bound, handling>>
    /\ LET json == StatsToJson(stats')
       IN  IF json.ok
           THEN response' = JsonResponse(json.text) /\ UNCHANGED fault
           ELSE response' = serve_500 /\ fault' = "serialize"
    /\ pc' = "respond"
    /\ UNCHANGED <<loop, startResult, request, handler, body, result, ret,
                   acquired, bodyRead, prev, socketFailed>>
    /\ UNCHANGED <<index, snap>>
    /\ UNCHANGED mutatorVars

\* -------------------------------------------------- the external mutator

NextGoodPath == Cardinality(index.docs \ {BadPath}) + 1

\* The mutator takes the Mutex for one whole add_document.
MutLock ==
    /\ mutpc = "idle"
    /\ adds < MaxAdds
    /\ CanAcquire(lock)
    /\ lock_unwrap(lock) = "guard"
    /\ lock' = [lock EXCEPT !.holder = "mutator"]
    /\ mutpc' = "locked"
    /\ \E p \in ({BadPath} \ index.docs) \cup {NextGoodPath} : mutPath' = p
    /\ UNCHANGED <<adds, committed, index, snap>>
    /\ UNCHANGED serverVars

\* First half of the mutation: the document-frequency table.
MutUpdateDf ==
    /\ mutpc = "locked"
    /\ index' = [index EXCEPT !.df = @ \cup TermsOf(mutPath)]
    /\ mutpc' = "mid"
    /\ UNCHANGED <<mutPath, adds, committed, lock, snap>>
    /\ UNCHANGED serverVars

\* Second half: the document table.
MutInsertDoc ==
    /\ mutpc = "mid"
    /\ index' = [index EXCEPT !.docs = @ \cup {mutPath}]
    /\ mutpc' = "written"
    /\ UNCHANGED <<mutPath, adds, committed, lock, snap>>
    /\ UNCHANGED serverVars

\* The mutator's guard is dropped.
MutUnlock ==
    /\ mutpc = "written"
    /\ lock' = [lock EXCEPT !.holder = "none"]
    /\ committed' = index
    /\ adds' = adds + 1
    /\ mutpc' = "idle"
    /\ mutPath' = 0
    /\ UNCHANGED <<index, snap>>
    /\ UNCHANGED serverVars

\* The mutator panics while it holds the guard: unwinding drops the guard
\* and poisons the Mutex.
MutPanic ==
    /\ mutpc \in {"locked", "mid"}
    /\ lock' = [holder |-> "none", poisoned |-> TRUE]
    /\ mutpc' = "dead"
    /\ UNCHANGED <<mutPath, adds, committed, index, snap>>
    /\ UNCHANGED serverVars

\* ------------------------------------------------------------ specification

Next ==
    \/ Bind
    \/ Accept
    \/ SocketShutdown
    \/ ServeRequest
    \/ SearchReadBody
    \/ SearchLock
    \/ SearchQuery
    \/ StatsLock
    \/ StatsReadDocs
    \/ StatsReadTerms
    \/ Respond
    \/ LoopContinue
    \/ MutLock
    \/ MutUpdateDf
    \/ MutInsertDoc
    \/ MutUnlock
    \/ MutPanic

Spec == Init /\ [][Next]_vars

TypeOK ==
    /\ loop \in {"INIT", "LISTENING", "STOPPED"}
    /\ startResult \in {"-", "Err", "panic"}
    /\ pc \in {"bind", "accept", "dispatch", "search_read", "search_lock",
               "search_query", "stats_lock", "stats_docs", "stats_terms",
               "respond", "returned", "stopped", "panicked"}
    /\ request \in Requests \cup {NoRequest}
    /\ guard \in BOOLEAN
    /\ ret \in {"-", "Ok", "Err"}
    /\ lock.holder \in {"none", "server", "mutator"}
    /\ lock.poisoned \in BOOLEAN
    /\ mutpc \in {"idle", "locked", "mid", "written", "dead"}
    /\ adds \in 0..MaxAdds
    /\ acquired \in 0..1
    /\ fault \in {"none", "transport", "utf8", "serialize"}
    /\ prev \in {"first", "success", "serialize", "io"}
    /\ responded \in 0..1
    /\ bound \in {"-", "ok", "failed"}
    /\ handling \in 0..1

\* ---------------------------------------------------- vocabulary of claims

\* The handler has built its response and called (or is calling) respond.
Answered == pc \in {"respond", "returned"}

SearchAnswered == Answered /\ handler = "serve_api_search"

StatsAnswered == Answered /\ handler = "serve_api_stats"

\* The request in hand has its response, from the handler or, on a panic,
\* from the drop of the Request.
Replied == Answered \/ pc = "panicked"

IsSearchRequest == request.method = "POST" /\ request.url = "/api/search"

\* The body was read without transport error and is well-formed UTF-8.
Utf8BodyRead == fault # "transport" /\ request.body \in ValidBodies

\* The body was read without transport error and is ill-formed.
BadBodyRead == fault # "transport" /\ request.body \in InvalidBodies

Min(a, b) == IF a < b THEN a ELSE b

\* The text is a JSON array of [path, score] pairs.
IsJsonArray(text) ==
    /\ Len(text) >= 2
    /\ (Len(text) - 2) % 4 = 0
    /\ text[1].t = "[" /\ text[Len(text)].t = "]"
    /\ \A k \in 0..(((Len(text) - 2) \div 4) - 1) :
         /\ text[4 * k + 2].t = "["
         /\ text[4 * k + 3].t = "str"
         /\ text[4 * k + 4].t = "num"
         /\ text[4 * k + 5].t = "]"

\* The entries a JSON array of pairs holds, in order.
JsonArrayEntries(text) ==
    [k \in 1..((Len(text) - 2) \div 4) |->
        [location |-> text[4 * k - 1].v, score |-> text[4 * k].v]]

Descending(seq) ==
    \A k \in 1..(Len(seq) - 1) : seq[k].score >= seq[k + 1].score

\* What the Index returns for the request's query in Index state i.
IndexAnswer(i) == search_query(i, from_utf8(request.body).chars)

\* ------------------------------------------------------------------ C1

ServerStep == pc' # pc

\* C2: a POST /api/search whose body is not valid UTF-8 is answered 400 with
\* body "400: <message>", and the Mutex is never acquired while it is being
\* handled: no step of its handling changes the lock or the Index.
C2_BadUtf8Gets400Unlocked ==
    /\ []((IsSearchRequest /\ request.body \in InvalidBodies) =>
            /\ acquired = 0
            /\ ~guard
            /\ lock.holder # "server"
            /\ (Answered /\ BadBodyRead) =>
                  /\ response.status = 400
                  /\ Len(response.body) = 2
                  /\ response.body[1] = Tok("400: ", 0))
    /\ [][(IsSearchRequest /\ request.body \in InvalidBodies /\ ServerStep)
             => (lock' = lock /\ index' = index)]_vars

\* An ill-formed body was answered 400 while the mutator held the Mutex.
C2_Witness ==
    /\ IsSearchRequest /\ BadBodyRead
    /\ pc = "returned"
    /\ response.status = 400
    /\ lock.holder = "mutator"

\* ------------------------------------------------------------------ C3

\* The text is the JSON object {docs_count, terms_count}.
IsStatsJson(text) ==
    /\ Len(text) = 4
    /\ text[1].t = "{" /\ text[4].t = "}"
    /\ text[2].t = "docs_count"
    /\ text[3].t = "terms_count"

\* C3 (as stated): GET /api/stats is always answered 200 with non-negative
\* docs_count and terms_count, both read in one hold of the Mutex, so that
\* the pair is the two counts of one single Index state.
C3_StatsSnapshot ==
    /\ pc \in {"stats_docs", "stats_terms"} =>
          (guard /\ lock.holder = "server")
    /\ (Replied /\ handler = "serve_api_stats") =>
          /\ response.status = 200
          /\ IsStatsJson(response.body)
          /\ response.body[2].v >= 0
          /\ response.body[3].v >= 0
          /\ \E i \in snap :
               /\ response.body[2].v = document_count(i)
               /\ response.body[3].v = term_count(i)

\* Stats were answered after one mutation and while the next one is halfway.
C3_Witness ==
    /\ StatsAnswered
    /\ pc = "returned"
    /\ adds >= 1
    /\ mutpc = "mid"
    /\ response.status = 200
    /\ response.body[2].v = document_count(committed)

\* ------------------------------------------------------------------ C4

FiveRoutes ==
    {<<"POST", "/api/search">>, <<"GET", "/api/stats">>,
     <<"GET", "/index.js">>, <<"GET", "/">>, <<"GET", "/index.html">>}

HandlerOfRoute(r) ==
    IF r = <<"POST", "/api/search">> THEN "serve_api_search"
    ELSE IF r = <<"GET", "/api/stats">> THEN "serve_api_stats"
    ELSE IF r = <<"GET", "/index.js">> THEN "serve_index_js"
    ELSE "serve_index_html"

\* C4: a (method, path) pair that is not exactly one of the five routes is
\* answered 404 with body "404", with no lock acquisition and no read of the
\* body; each of the five routes goes to its one handler.
C4_RouterExact ==
    LET r == <<request.method, request.url>>
    IN  /\ (request # NoRequest /\ r \notin FiveRoutes) =>
              /\ acquired = 0
              /\ ~guard
              /\ ~bodyRead
              /\ handler \in {"-", "serve_404"}
              /\ Answered =>
                    /\ response.status = 404
                    /\ response.body = <<Tok("404", 0)>>
        /\ (r \in FiveRoutes /\ handler # "-") =>
              handler = HandlerOfRoute(r)

\* A known path with the wrong method was answered 404.
C4_Witness ==
    /\ request.method = "PUT"
    /\ request.url = "/api/stats"
    /\ pc = "returned"
    /\ response.status = 404

\* ------------------------------------------------------------------ C5

\* C5 (as stated): whatever fails while one request is handled, an I/O error
\* of respond or a panic of the handler, is discarded at the dispatch
\* boundary: with a request in hand the loop is always still LISTENING and
\* start has not ended.
C5_FailureNeverLeavesLoop ==
    request # NoRequest => (loop = "LISTENING" /\ startResult = "-")

\* ------------------------------------------------------------------ C6

\* The responses the request in hand can lawfully get, computed from the
\* request, the transport outcome and the Index alone.
ExpectedResponses ==
    IF handler = "serve_404" THEN {serve_404}
    ELSE IF handler = "serve_index_js"
      THEN {[status |-> 200, contentType |-> "text/javascript; charset=utf-8",
             body |-> <<Tok("index.js", 0)>>]}
    ELSE IF handler = "serve_index_html"
      THEN {[status |-> 200, contentType |-> "text/html; charset=utf-8",
             body |-> <<Tok("index.html", 0)>>]}
    ELSE IF handler = "serve_api_stats"
      THEN {[status |-> 200, contentType |-> "application/json",
             body |-> <<Tok("{", 0), Tok("docs_count", document_count(i)),
                        Tok("terms_count", term_count(i)), Tok("}", 0)>>] :
               i \in snap}
    ELSE IF fault = "transport" THEN {serve_500}
    ELSE IF request.body \in InvalidBodies
      THEN {serve_400("Body must be a valid UTF-8 string")}
    ELSE {LET first == SubSeq(IndexAnswer(i), 1,
                              Min(20, Len(IndexAnswer(i))))
          IN  IF \E k \in 1..Len(first) : first[k].location = BadPath
              THEN serve_500
              ELSE [status |-> 200, contentType |-> "application/json",
                    body |-> <<Tok("[", 0)>> \o EntriesText(first)
                                 \o <<Tok("]", 0)>>] :
            i \in snap}

\* C6: when the handling of a request ends in a failure reported as a value
\* (a serialization failure answered 500, or an Err from respond), the loop
\* goes back to accepting with the Mutex released and the Index untouched,
\* and the next request is answered as it would be after a success: every
\* answer is determined by its own request and the Index, not by how the
\* previous request ended.
C6_NextRequestUnaffected ==
    /\ [][(pc = "returned" /\ Outcome \in {"serialize", "io"} /\ ServerStep)
             => /\ pc' = "accept"
                /\ loop' = "LISTENING"
                /\ startResult' = "-"
                /\ ~guard'
                /\ lock'.holder # "server"
                /\ lock' = lock
                /\ index' = index]_vars
    /\ [](Answered => response \in ExpectedResponses)

\* Right after a serialization failure, the next request got a 200 that
\* reached the client.
C6_Witness ==
    /\ prev = "serialize"
    /\ pc = "returned"
    /\ ret = "Ok"
    /\ response.status = 200
    /\ handler = "serve_api_search"

\* Right after a failed respond, the next request got a 200.
C6_WitnessIo ==
    /\ prev = "io"
    /\ pc = "returned"
    /\ ret = "Ok"
    /\ response.status = 200

\* ------------------------------------------------------------------ C7

\* C7 (as stated): from LISTENING the loop becomes STOPPED only when
\* incoming_requests ends, and start then returns an error.
C7_StopsOnlyOnListenerFailure ==
    [][(loop = "LISTENING" /\ loop' = "STOPPED")
          => (socketFailed' /\ startResult' = "Err")]_vars

\* ------------------------------------------------------------------ C8

MutatorHolds == mutpc \in {"locked", "mid", "written"}

\* C8: the serving thread (in its search or its stats access) and the
\* external mutator never hold the Mutex at the same time, and either of
\* them acquires it only when nobody holds it.
C8_MutualExclusion ==
    /\ [](/\ ~(guard /\ MutatorHolds)
          /\ guard => lock.holder = "server"
          /\ MutatorHolds => lock.holder = "mutator"
          /\ pc \in {"search_query", "stats_docs", "stats_terms"} => guard)
    /\ [][(~guard /\ guard') => lock.holder = "none"]_vars
    /\ [][(~MutatorHolds /\ MutatorHolds') => lock.holder = "none"]_vars

\* The serving thread is waiting for the Mutex that the mutator holds.
C8_Witness ==
    /\ pc \in {"search_lock", "stats_lock"}
    /\ MutatorHolds
    /\ lock.holder = "mutator"

\* The mutator could start but the serving thread holds the Mutex.
C8_WitnessServerHolds ==
    /\ guard
    /\ mutpc = "idle"
    /\ adds < MaxAdds

\* ------------------------------------------------------------------ C9

\* The Index state is whole: its document-frequency table is the one of its
\* documents.
Whole(i) == i.df = UNION {TermsOf(p) : p \in i.docs}

\* C9: with searches, stats reads and two-step mutations interleaved, what a
\* search got from the Index and what a stats read got are what one whole
\* Index state gives, the one before or the one after the mutation; never
\* a state with the mutation half applied.
C9_NoTornRead ==
    /\ (SearchAnswered /\ acquired = 1) =>
          \E i \in snap : Whole(i) /\ result = search_query(i, body)
    /\ StatsAnswered =>
          \E i \in snap :
             /\ Whole(i)
             /\ stats = [docs_count |-> document_count(i),
                         terms_count |-> term_count(i)]

\* A search was answered between one mutation and the next, which is now
\* halfway through.
C9_Witness ==
    /\ SearchAnswered
    /\ pc = "returned"
    /\ acquired = 1
    /\ adds >= 1
    /\ mutpc = "mid"
    /\ ~Whole(index)

\* ------------------------------------------------------------------ C10

\* C10 (as stated): every response has a status in {200, 400, 404, 500};
\* every response on an API route, its 400 and 500 included, has
\* Content-Type application/json; a static route has its asset's type.
C10_StatusAndContentType ==
    Answered =>
        /\ response.status \in {200, 400, 404, 500}
        /\ handler \in {"serve_api_search", "serve_api_stats"} =>
              response.contentType = "application/json"
        /\ handler = "serve_index_js" =>
              response.contentType = "text/javascript; charset=utf-8"
        /\ handler = "serve_index_html" =>
              response.contentType = "text/html; charset=utf-8"

\* ------------------------------------------------------------------ C11

\* The handling of the request in hand is over.
HandlingOver == pc \in {"returned", "panicked"}

\* C11: every dispatched request gets exactly one response, never none and
\* never two, with a status in {200, 400, 404, 500}, on every path through
\* the router and the handlers, the failing ones included.
C11_ExactlyOneResponse ==
    /\ responded <= 1
    /\ pc \in {"dispatch", "search_read", "search_lock", "search_query",
               "stats_lock", "stats_docs", "stats_terms", "respond"} =>
          responded = 0
    /\ HandlingOver =>
          /\ responded = 1
          /\ response.status \in {200, 400, 404, 500}
    /\ (pc = "accept" /\ prev # "first") => responded = 1

\* A request whose results could not be serialized got its one response.
C11_Witness ==
    /\ pc = "returned"
    /\ fault = "serialize"
    /\ responded = 1
    /\ response.status = 500

\* A request whose handler panicked got its one response.
C11_WitnessPanic ==
    /\ pc = "panicked"
    /\ responded = 1
    /\ response.status = 500

\* ------------------------------------------------------------------ C12

IsRootRequest ==
    request.method = "GET" /\ request.url \in {"/", "/index.html"}

\* C12: GET / and GET /index.html get the same response, status 200, the
\* embedded HTML payload and Content-Type text/html; charset=utf-8, whatever
\* the Index holds and whatever came before; neither touches the Mutex.
C12_RootAliasSameResponse ==
    /\ [](IsRootRequest =>
            /\ acquired = 0
            /\ ~guard
            /\ lock.holder # "server"
            /\ Replied =>
                  response = [status |-> 200,
                              contentType |-> "text/html; charset=utf-8",
                              body |-> <<Tok("index.html", 0)>>])
    /\ [][(IsRootRequest /\ ServerStep) => (lock' = lock /\ index' = index)]_vars

\* GET / was answered after a failed request and after the Index changed.
C12_Witness ==
    /\ request.method = "GET" /\ request.url = "/"
    /\ pc = "returned"
    /\ prev = "serialize"
    /\ adds >= 1

\* GET /index.html was answered while the mutator held the Mutex.
C12_WitnessAlias ==
    /\ request.method = "GET" /\ request.url = "/index.html"
    /\ pc = "returned"
    /\ lock.holder = "mutator"

\* ------------------------------------------------------------------ C13

\* C13 (as stated): while a handler reads the request body or writes the
\* response it does not hold the Mutex, and the Mutex is acquired only after
\* the body has been read and decoded.
C13_NoLockAcrossIo ==
    /\ pc \in {"search_read", "respond"} => ~guard
    /\ (handler = "serve_api_search" /\ acquired > 0) => bodyRead

\* ------------------------------------------------------------------ C14

\* C14: once a search or stats handler has returned, by whichever path, it
\* does not hold the Mutex; while the loop waits for the next request no
\* handler holds it.
C14_ReleasedOnReturn ==
    pc \in {"returned", "accept", "stopped", "panicked"} =>
        (~guard /\ lock.holder # "server")

\* The search handler returned after a serialization failure and a failed
\* respond, having held the Mutex.
C14_Witness ==
    /\ pc = "returned"
    /\ handler = "serve_api_search"
    /\ acquired = 1
    /\ fault = "serialize"
    /\ ret = "Err"

\* ------------------------------------------------------------------ C15

\* C15: when the bind fails, start goes from its initial state straight to
\* STOPPED and reports an error; LISTENING is never entered, no request is
\* accepted, dispatched or answered, and the Mutex is never acquired.
C15_BindFailureStops ==
    /\ [](bound = "failed" =>
            /\ pc = "stopped"
            /\ loop = "STOPPED"
            /\ startResult = "Err"
            /\ request = NoRequest
            /\ handler = "-"
            /\ response = NoResponse
            /\ responded = 0
            /\ handling = 0
            /\ acquired = 0
            /\ ~guard
            /\ lock.holder # "server"
            /\ prev = "first")
    /\ [][loop' = "LISTENING" => bound' = "ok"]_vars
    /\ [][(loop = "INIT" /\ bound' = "failed") => loop' = "STOPPED"]_vars

\* The bind failed, and the mutator went on working without the server.
C15_Witness ==
    /\ bound = "failed"
    /\ loop = "STOPPED"
    /\ mutpc = "written"

\* ------------------------------------------------------------------ C16

\* C16: requests are handled strictly one at a time and in acceptance order:
\* the next request is accepted only when the handling of the one before
\* (read, process, respond) is complete and answered, at most one request is
\* in handling at any moment, and a response is only ever produced for the
\* one request in hand.
C16_OneAtATime ==
    /\ [](handling <= 1)
    /\ [](pc = "accept" => (handling = 0 /\ request = NoRequest))
    /\ [](handling = 1 <=> request # NoRequest)
    /\ [][(request' # request /\ request' # NoRequest) =>
            /\ request = NoRequest
            /\ handling = 0
            /\ prev # "first" => responded = 1]_vars
    /\ [][responded' > responded =>
            (handling = 1 /\ request' = request /\ request # NoRequest)]_vars

\* A second request is in handling, accepted after the first was answered.
C16_Witness ==
    /\ pc = "search_query"
    /\ prev = "success"
    /\ handling = 1
    /\ responded = 0

\* ------------------------------------------------------------------ C17

\* The request in hand is one whose handling reaches the Index.
ReachesIndex ==
    \/ IsSearchRequest /\ Utf8BodyRead
    \/ request.method = "GET" /\ request.url = "/api/stats"

\* C17: the handling of one request acquires the Mutex at most once and
\* never attempts an acquisition while holding it; a search with a decodable
\* body and a stats request acquire exactly once, and the 400, 404, static
\* and transport-failure paths acquire zero times.
C17_AtMostOneAcquisition ==
    /\ acquired <= 1
    /\ pc \in {"search_lock", "stats_lock"} =>
          (acquired = 0 /\ ~guard /\ lock.holder # "server")
    /\ guard => acquired = 1
    /\ pc \in {"respond", "returned"} =>
          acquired = (IF ReachesIndex THEN 1 ELSE 0)

\* A search answered 200 after exactly one acquisition.
C17_Witness ==
    /\ pc = "returned"
    /\ IsSearchRequest
    /\ response.status = 200
    /\ acquired = 1

\* A search answered 400 without any acquisition.
C17_WitnessZero ==
    /\ pc = "returned"
    /\ IsSearchRequest
    /\ response.status = 400
    /\ acquired = 0

\* ------------------------------------------------------------------ C18

\* C18: the serving layer only reads the Index: no step of the server, for
\* a request of any kind, changes the documents or the term frequencies or
\* replaces the Index.
C18_ServerOnlyReads == [][ServerStep => index' = index]_vars

\* A search over a non-empty Index was answered after an earlier request.
C18_Witness ==
    /\ pc = "returned"
    /\ handler = "serve_api_search"
    /\ response.status = 200
    /\ index.docs # {}
    /\ prev # "first"

\* ------------------------------------------------------------------ C19

\* C19: when the read of the body of POST /api/search fails at the
\* transport, the handler responds 500 with body "500" exactly once; it does
\* not read again, does not decode the partial body, and neither acquires
\* the Mutex nor queries the Index.
C19_TransportFailure500 ==
    /\ [](fault = "transport" =>
            /\ IsSearchRequest
            /\ pc \in {"respond", "returned"}
            /\ response = [status |-> 500,
                           contentType |-> "text/plain; charset=UTF-8",
                           body |-> <<Tok("500", 0)>>]
            /\ responded = (IF pc = "returned" THEN 1 ELSE 0)
            /\ body = <<>>
            /\ result = <<>>
            /\ snap = {}
            /\ acquired = 0
            /\ ~guard
            /\ lock.holder # "server")
    /\ [][(fault = "transport" /\ ServerStep) =>
            /\ pc' \in {"returned", "accept"}
            /\ lock' = lock
            /\ index' = index]_vars

\* The one 500 of a failed body read was sent.
C19_Witness ==
    /\ fault = "transport"
    /\ pc = "returned"
    /\ responded = 1
    /\ request.body \in ValidBodies
    /\ request.body # <<>>

\* ------------------------------------------------------------------ C20

\* The steps of the thread of start outside the Index's search call, from
\* the bind on; accepting a request is not among them, since it waits on a
\* client.
StartThreadStep ==
    \/ Bind
    \/ ServeRequest
    \/ SearchReadBody
    \/ SearchLock
    \/ StatsLock
    \/ StatsReadDocs
    \/ StatsReadTerms
    \/ Respond
    \/ LoopContinue

\* The Index's search call terminates: the handler does not stay inside
\* model.search_query for ever.  SearchQuery is enabled exactly when
\* pc = "search_query" and it changes pc, so this is WF_vars(SearchQuery).
SearchReturns == []<>(pc # "search_query")

\* The steps of an external holder of the Mutex up to its release.
HolderStep ==
    \/ MutUpdateDf
    \/ MutInsertDoc
    \/ MutUnlock
    \/ MutPanic

\* Fair scheduling: the thread of start runs whenever it can, search_query
\* returns, and an external holder eventually releases the Mutex.  The
\* mutator locks only finitely often, so weak fairness is enough for a
\* blocked lock() to be served.  Nothing obliges a client to send a request
\* or the listener to fail.
FairSpec ==
    /\ Spec
    /\ WF_vars(StartThreadStep)
    /\ SearchReturns
    /\ WF_vars(HolderStep)

WaitingForLock == pc \in {"search_lock", "stats_lock"}

\* The loop never waits forever on the Mutex.
C20_LockWaitEnds == WaitingForLock ~> ~WaitingForLock

\* Every accepted request is answered.
C20_EveryRequestAnswered == (handling = 1) ~> (responded = 1)

\* C20 (as stated): under fair scheduling, with search_query terminating
\* and every external holder releasing the Mutex, every accepted request
\* finishes its handling and the loop returns to accepting the next request;
\* the loop never waits forever on the Mutex.
C20_Progress ==
    /\ (handling = 1) ~> (pc = "accept")
    /\ WaitingForLock ~> ~WaitingForLock

=============================================================================
